---------------------------- MODULE Spec2Model ----------------------------
(***************************************************************************)
(* A model of packages/identity-provider/src/protocol/ic-id-protocol.ts,   *)
(* the translation layer between the IC identity protocol messages         *)
(* (AuthenticationRequest, AuthenticationResponse) and their OAuth2 wire   *)
(* form carried in redirect URLs, with its bearer-token and scope codecs.  *)
(*                                                                         *)
(* Every exported function is pure.  The state machine is a caller: each   *)
(* action is one call of one function, with its argument drawn from a      *)
(* bounded set (or taken from the value the previous call returned), and   *)
(* records the argument and the outcome (a value, or the error thrown).    *)
(***************************************************************************)
EXTENDS Integers, Sequences, FiniteSets

VARIABLES
    call,   \* the last call: [op, in, out]
    prev    \* the call whose result was fed to `call`, or NoCall

vars == <<call, prev>>

(***************************************************************************)
(* Bounds of the model.                                                    *)
(***************************************************************************)
MaxParams == 2      \* query parameters already on a URL handed in
MaxScopeLen == 5    \* characters of a scope string handed to parseScopeString
MaxCanisters == 3   \* entries of a scope description handed to stringifyScope

(***************************************************************************)
(* JavaScript values.  A value carries its type tag, so that undefined,    *)
(* null, 0, false and '' stay distinct.  Objects are functions from their  *)
(* own keys to values: a key may be present with the value undefined.      *)
(***************************************************************************)
Undef == [t |-> "undefined"]
Null == [t |-> "null"]
Str(s) == [t |-> "string", v |-> s]
Num(n) == [t |-> "number", v |-> n]
Bool(b) == [t |-> "boolean", v |-> b]
Arr(s) == [t |-> "array", v |-> s]
Obj(f) == [t |-> "object", v |-> f]

\* typeof x === 'undefined'
IsUndefined(x) == x.t = "undefined"

\* typeof x === 'string'
IsString(x) == x.t = "string"

\* ToBoolean: the falsy values are undefined, null, false, 0 and ''.
Truthy(x) ==
    CASE x.t = "undefined" -> FALSE
      [] x.t = "null" -> FALSE
      [] x.t = "boolean" -> x.v
      [] x.t = "number" -> x.v # 0
      [] x.t = "string" -> x.v # ""
      [] OTHER -> TRUE

\* a || b
OrElse(a, b) == IF Truthy(a) THEN a ELSE b

\* 'k' in o
HasKey(o, k) == k \in DOMAIN o

\* o.k, undefined when o has no such key
Get(o, k) == IF k \in DOMAIN o THEN o[k] ELSE Undef

DigitStr(d) ==
    CASE d = 0 -> "0" [] d = 1 -> "1" [] d = 2 -> "2" [] d = 3 -> "3"
      [] d = 4 -> "4" [] d = 5 -> "5" [] d = 6 -> "6" [] d = 7 -> "7"
      [] d = 8 -> "8" [] d = 9 -> "9"

RECURSIVE NumToStr(_)
NumToStr(n) ==
    IF n < 10 THEN DigitStr(n) ELSE NumToStr(n \div 10) \o DigitStr(n % 10)

\* The conversion of a value to the string a URLSearchParams method stores
\* (WebIDL USVString): undefined becomes the text "undefined".
ToUSVString(x) ==
    CASE x.t = "undefined" -> "undefined"
      [] x.t = "null" -> "null"
      [] x.t = "string" -> x.v
      [] x.t = "number" -> NumToStr(x.v)
      [] x.t = "boolean" -> IF x.v THEN "true" ELSE "false"

\* What a call returns, or throws.
Ok(v) == [ok |-> TRUE, value |-> v]
Throw(name, message) == [ok |-> FALSE, error |-> [name |-> name, message |-> message]]

(***************************************************************************)
(* URLSearchParams: an ordered list of <<key, value>> pairs of strings.    *)
(***************************************************************************)
RECURSIVE SelectPairs(_, _)
\* the pairs of ps whose key is in keys, in order
SelectPairs(ps, keys) ==
    IF ps = <<>> THEN <<>>
    ELSE IF Head(ps)[1] \in keys
         THEN <<Head(ps)>> \o SelectPairs(Tail(ps), keys)
         ELSE SelectPairs(Tail(ps), keys)

ParamKeys(ps) == {ps[i][1] : i \in DOMAIN ps}

\* searchParams.has(k)
ParamHas(ps, k) == k \in ParamKeys(ps)

\* searchParams.get(k): the first value of k, or null
ParamGet(ps, k) ==
    IF ParamHas(ps, k)
    THEN Str(ps[CHOOSE i \in DOMAIN ps :
                    ps[i][1] = k /\ \A j \in 1..(i - 1) : ps[j][1] # k][2])
    ELSE Null

\* searchParams.delete(k): every pair of key k goes
ParamDelete(ps, k) == SelectPairs(ps, ParamKeys(ps) \ {k})

\* searchParams.set(k, v): the first pair of key k takes the value, the
\* others of that key go; with no such pair, one is appended.
ParamSet(ps, k, v) ==
    IF ParamHas(ps, k)
    THEN LET first == CHOOSE i \in DOMAIN ps :
                          ps[i][1] = k /\ \A j \in 1..(i - 1) : ps[j][1] # k
         IN  SubSeq(ps, 1, first - 1) \o <<<<k, v>>>>
                 \o ParamDelete(SubSeq(ps, first + 1, Len(ps)), k)
    ELSE Append(ps, <<k, v>>)

(***************************************************************************)
(* URLs.  A URL text is a base (scheme, host, path) followed by a query.   *)
(* UrlBases lists the base texts of the model with what the URL parser     *)
(* makes of each: whether it is an absolute URL, and its normalized form   *)
(* (scheme and host in lower case, an empty path written "/").             *)
(***************************************************************************)
UrlBases ==
    { [text |-> "https://rp.example/cb",  absolute |-> TRUE,  href |-> "https://rp.example/cb"],
      [text |-> "HTTPS://RP.EXAMPLE/cb",  absolute |-> TRUE,  href |-> "https://rp.example/cb"],
      [text |-> "https://rp.example",     absolute |-> TRUE,  href |-> "https://rp.example/"],
      [text |-> "https://rp.example/",    absolute |-> TRUE,  href |-> "https://rp.example/"],
      [text |-> "https://idp.example/authorize", absolute |-> TRUE,
                                          href |-> "https://idp.example/authorize"],
      [text |-> "rp.example/cb",          absolute |-> FALSE, href |-> ""],
      [text |-> "/cb",                    absolute |-> FALSE, href |-> ""] }

RECURSIVE JoinPairs(_)
JoinPairs(ps) ==
    IF ps = <<>> THEN ""
    ELSE Head(ps)[1] \o "=" \o Head(ps)[2]
             \o (IF Tail(ps) = <<>> THEN "" ELSE "&" \o JoinPairs(Tail(ps)))

\* the query part of a URL text
QueryText(ps) == IF ps = <<>> THEN "" ELSE "?" \o JoinPairs(ps)

\* the URL text with base b and query parameters ps
UrlText(b, ps) == b \o QueryText(ps)

\* Query parameters a URL handed in may already carry.
PreKeys == {"foo", "state"}
PreValues == {"1", "old"}
PrePairs == {<<k, v>> : k \in PreKeys, v \in PreValues}
PreQueries == UNION {[1..n -> PrePairs] : n \in 0..MaxParams}

\* The readings of a text as base + query.
UrlReadings(s) ==
    {r \in [base : UrlBases, params : PreQueries] : UrlText(r.base.text, r.params) = s}

\* new URL(s): a URL object [base, params], or the TypeError the parser
\* throws for a text that is not an absolute URL.
ParseUrl(s) ==
    LET rs == {r \in UrlReadings(s) : r.base.absolute}
    IN  IF rs = {} THEN Throw("TypeError", "Invalid URL")
        ELSE LET reading == CHOOSE r \in rs : TRUE
             IN  Ok([base |-> reading.base.href, params |-> reading.params])

\* url.toString()
Href(url) == UrlText(url.base, url.params)


(***************************************************************************)
(* Object.entries(o), for an object whose keys were written in the order   *)
(* keys.                                                                   *)
(***************************************************************************)
Entries(o, keys) == [i \in DOMAIN keys |-> <<keys[i], o[keys[i]]>>]

(***************************************************************************)
(* toOAuth2: an AuthenticationResponse as an OAuth2AccessTokenResponse.    *)
(* All five keys are written, state and scope also when undefined.         *)
(***************************************************************************)
toOAuth2Keys == <<"access_token", "expires_in", "token_type", "state", "scope">>

toOAuth2(message) ==
    [access_token |-> message.accessToken,
     expires_in   |-> message.expiresIn,
     token_type   |-> message.tokenType,
     state        |-> message.state,
     scope        |-> message.scope]

(***************************************************************************)
(* AuthenticationResponse(input): an OAuth2AccessTokenResponse decoded.    *)
(***************************************************************************)
AuthenticationResponse(input) ==
    [type        |-> "AuthenticationResponse",
     accessToken |-> Get(input, "access_token"),
     tokenType   |-> OrElse(Get(input, "token_type"), Str("bearer")),
     expiresIn   |-> Get(input, "expires_in"),
     state       |-> Get(input, "state"),
     scope       |-> Get(input, "scope")]

(***************************************************************************)
(* AuthenticationRequest(input): an OAuth2AuthorizationRequest decoded.    *)
(* new URL(input.redirect_uri) throws for a text that is no absolute URL,  *)
(* and the request is then not built.  The console.log of the input       *)
(* changes nothing and is left out, as is the console.error of             *)
(* parseScopeString.                                                       *)
(***************************************************************************)
\* A faulty variant: scope is passed through without the default ''.
AuthenticationRequest_NoScopeDefault(input) ==
    LET url == ParseUrl(ToUSVString(Get(input, "redirect_uri")))
    IN  IF ~url.ok THEN url
        ELSE Ok([type            |-> "AuthenticationRequest",
                 sessionIdentity |-> [hex |-> Get(input, "login_hint")],
                 redirectUri     |-> Str(Href(url.value)),
                 state           |-> Get(input, "state"),
                 scope           |-> Get(input, "scope")])

\* A faulty variant: redirect_uri is stored as given, never parsed.
AuthenticationRequest_RawRedirectUri(input) ==
    Ok([type            |-> "AuthenticationRequest",
        sessionIdentity |-> [hex |-> Get(input, "login_hint")],
        redirectUri     |-> Get(input, "redirect_uri"),
        state           |-> Get(input, "state"),
        scope           |-> OrElse(Get(input, "scope"), Str(""))])

AuthenticationRequest(input) ==
    LET url == ParseUrl(ToUSVString(Get(input, "redirect_uri")))
    IN  IF ~url.ok THEN url
        ELSE Ok([type            |-> "AuthenticationRequest",
                 sessionIdentity |-> [hex |-> Get(input, "login_hint")],
                 redirectUri     |-> Str(Href(url.value)),
                 state           |-> Get(input, "state"),
                 scope           |-> OrElse(Get(input, "scope"), Str(""))])

(***************************************************************************)
(* oauth2.fromQueryString, the generic OAuth2 parser of ./oauth2: an       *)
(* access-token response when access_token is among the parameters,        *)
(* otherwise an authorization request when its required fields login_hint  *)
(* and redirect_uri are, otherwise undefined.  A message has the keys of   *)
(* the parameters that are present; expires_in is read as a decimal.       *)
(***************************************************************************)
ExpiresInValues == {0, 3600}

ParseDecimal(s) ==
    IF \E n \in ExpiresInValues : NumToStr(n) = s
    THEN Num(CHOOSE n \in ExpiresInValues : NumToStr(n) = s)
    ELSE Undef

OAuth2ResponseKeys == {"access_token", "token_type", "expires_in", "state", "scope"}
OAuth2RequestKeys == {"login_hint", "redirect_uri", "state", "scope"}

OAuth2Field(ps, k) ==
    IF k = "expires_in" THEN ParseDecimal(ParamGet(ps, k).v) ELSE ParamGet(ps, k)

OAuth2FromQueryString(ps) ==
    IF ParamHas(ps, "access_token")
    THEN Obj([k \in OAuth2ResponseKeys \cap ParamKeys(ps) |-> OAuth2Field(ps, k)])
    ELSE IF ParamHas(ps, "login_hint") /\ ParamHas(ps, "redirect_uri")
         THEN Obj([k \in OAuth2RequestKeys \cap ParamKeys(ps) |-> OAuth2Field(ps, k)])
         ELSE Undef

(***************************************************************************)
(* fromQueryString: undefined when the OAuth2 parser recognises nothing, a *)
(* response when the OAuth2 message has the key access_token, a request    *)
(* otherwise.                                                              *)
(***************************************************************************)
\* A faulty variant: a message is taken for a response by its token_type
\* instead of its access_token.
fromQueryString_ByTokenType(searchParams) ==
    LET oauth2Message == OAuth2FromQueryString(searchParams)
    IN  IF ~Truthy(oauth2Message) THEN Ok(Undef)
        ELSE IF HasKey(oauth2Message.v, "token_type")
             THEN Ok(AuthenticationResponse(oauth2Message.v))
             ELSE AuthenticationRequest(oauth2Message.v)

fromQueryString(searchParams) ==
    LET oauth2Message == OAuth2FromQueryString(searchParams)
    IN  IF ~Truthy(oauth2Message) THEN Ok(Undef)
        ELSE IF HasKey(oauth2Message.v, "access_token")
             THEN Ok(AuthenticationResponse(oauth2Message.v))
             ELSE AuthenticationRequest(oauth2Message.v)

(***************************************************************************)
(* parseBearerToken.  A token is the hex text of the UTF-8 bytes of a JSON *)
(* text; DecodedJson is the value hexToBytes, decodeUtf8 and JSON.parse    *)
(* make of it; the tokens of the model all decode.  Reading a property of  *)
(* null throws; of a number, a string, a boolean or an array it gives      *)
(* undefined.  The object result is built and not returned: parsed is.     *)
(***************************************************************************)
DecodedJson(icIdpBearerToken) == icIdpBearerToken.json

Property(x, k) == IF x.t = "object" THEN Get(x.v, k) ELSE Undef

\* The message assert.ok(delegations) generates when given none.
AssertOkMessage == "The expression evaluated to a falsy value: assert.ok(delegations)"

\* A faulty variant: delegations is refused only when null or undefined.
parseBearerToken_NullCheck(icIdpBearerToken) ==
    LET parsed == DecodedJson(icIdpBearerToken)
        publicKey == Property(parsed, "publicKey")
        delegations == Property(parsed, "delegations")
    IN  IF parsed.t = "null"
        THEN Throw("TypeError", "Cannot read properties of null")
        ELSE IF ~IsString(publicKey)
             THEN Throw("Error", "publicKey must be a string")
             ELSE IF delegations.t \in {"null", "undefined"}
                  THEN Throw("AssertionError", AssertOkMessage)
                  ELSE Ok(parsed)

parseBearerToken(icIdpBearerToken) ==
    LET parsed == DecodedJson(icIdpBearerToken)
        publicKey == Property(parsed, "publicKey")
        delegations == Property(parsed, "delegations")
        result == Obj([publicKey |-> publicKey, delegations |-> delegations])
    IN  IF parsed.t = "null"
        THEN Throw("TypeError", "Cannot read properties of null")
        ELSE IF ~IsString(publicKey)
             THEN Throw("Error", "publicKey must be a string")
             ELSE IF ~Truthy(delegations)
                  THEN Throw("AssertionError", AssertOkMessage)
                  ELSE Ok(parsed)

(***************************************************************************)
(* toOauth: an AuthenticationRequest as an OAuth2AuthorizationRequest.     *)
(***************************************************************************)
toOauthKeys == <<"response_type", "login_hint", "redirect_uri", "scope", "state">>

toOauth(idpRequest) ==
    [response_type |-> Str("token"),
     login_hint    |-> idpRequest.sessionIdentity.hex,
     redirect_uri  |-> idpRequest.redirectUri,
     scope         |-> idpRequest.scope,
     state         |-> idpRequest.state]

(***************************************************************************)
(* createAuthenticationRequestUrl: a copy of the identity provider's URL   *)
(* with every entry of toOauth(request) set as a query parameter.          *)
(***************************************************************************)
RECURSIVE SetEntries(_, _)
SetEntries(ps, entries) ==
    IF entries = <<>> THEN ps
    ELSE SetEntries(ParamSet(ps, Head(entries)[1], ToUSVString(Head(entries)[2])),
                    Tail(entries))

createAuthenticationRequestUrl(identityProviderUrl, authenticationRequest) ==
    LET url == ParseUrl(Href(identityProviderUrl))
    IN  IF ~url.ok THEN url
        ELSE Ok([url.value EXCEPT !.params =
                    SetEntries(@, Entries(toOauth(authenticationRequest), toOauthKeys))])

(***************************************************************************)
(* createResponseRedirectUrl: the redirect URI with every entry of         *)
(* toOAuth2(response) set as a query parameter, or deleted when its value  *)
(* is undefined.                                                           *)
(***************************************************************************)
RECURSIVE SetOrDeleteEntries(_, _)
SetOrDeleteEntries(ps, entries) ==
    IF entries = <<>> THEN ps
    ELSE LET key == Head(entries)[1]
             value == Head(entries)[2]
         IN  SetOrDeleteEntries(
                 IF IsUndefined(value) THEN ParamDelete(ps, key)
                 ELSE ParamSet(ps, key, ToUSVString(value)),
                 Tail(entries))

\* A faulty variant: every entry is set, an undefined one as well.
createResponseRedirectUrl_NoDelete(authResponse, requestRedirectUri) ==
    LET oauth2Response == toOAuth2(authResponse)
        redirectUrl == ParseUrl(requestRedirectUri)
    IN  IF ~redirectUrl.ok THEN redirectUrl
        ELSE Ok([redirectUrl.value EXCEPT !.params =
                    SetEntries(@, Entries(oauth2Response, toOAuth2Keys))])

createResponseRedirectUrl(authResponse, requestRedirectUri) ==
    LET oauth2Response == toOAuth2(authResponse)
        redirectUrl == ParseUrl(requestRedirectUri)
    IN  IF ~redirectUrl.ok THEN redirectUrl
        ELSE Ok([redirectUrl.value EXCEPT !.params =
                    SetOrDeleteEntries(@, Entries(oauth2Response, toOAuth2Keys))])

(***************************************************************************)
(* The scope codec.  A scope string is a sequence of characters.  The      *)
(* principal codec of @dfinity/agent is a table: each principal has one    *)
(* canonical text, non-empty and without white space, and fromText throws  *)
(* for every other text.                                                   *)
(***************************************************************************)
SP == " "
TAB == "\t"

PrincipalTexts ==
    { [principal |-> "P1", text |-> <<"a">>],
      [principal |-> "P2", text |-> <<"b", "a">>] }

Principals == {row.principal : row \in PrincipalTexts}

\* principal.toText()
PrincipalToText(principal) ==
    (CHOOSE row \in PrincipalTexts : row.principal = principal).text

\* Principal.fromText(text)
PrincipalFromText(text) ==
    IF \E row \in PrincipalTexts : row.text = text
    THEN Ok((CHOOSE row \in PrincipalTexts : row.text = text).principal)
    ELSE [ok |-> FALSE,
          error |-> [name |-> "Error", message |-> "invalid principal text",
                     text |-> text]]

RECURSIVE SplitFrom(_, _, _, _)
SplitFrom(s, sep, segment, done) ==
    IF s = <<>> THEN Append(done, segment)
    ELSE IF Head(s) = sep
         THEN SplitFrom(Tail(s), sep, <<>>, Append(done, segment))
         ELSE SplitFrom(Tail(s), sep, Append(segment, Head(s)), done)

\* s.split(sep), for a separator of one character
Split(s, sep) == SplitFrom(s, sep, <<>>, <<>>)

\* segments.filter(Boolean)
FilterBoolean(segments) == SelectSeq(segments, LAMBDA segment : segment # <<>>)

RECURSIVE MapCanisters_SkipInvalid(_, _)
\* A faulty variant: a segment that fails to decode is left out.
MapCanisters_SkipInvalid(scopeSegments, canisters) ==
    IF scopeSegments = <<>> THEN Ok(canisters)
    ELSE LET principal == PrincipalFromText(Head(scopeSegments))
         IN  IF ~principal.ok
             THEN MapCanisters_SkipInvalid(Tail(scopeSegments), canisters)
             ELSE MapCanisters_SkipInvalid(Tail(scopeSegments),
                      Append(canisters, [principal |-> principal.value]))

RECURSIVE MapCanisters(_, _)
\* scopeSegments.map(...): the first segment that fails to decode ends the
\* call with the error it threw.
MapCanisters(scopeSegments, canisters) ==
    IF scopeSegments = <<>> THEN Ok(canisters)
    ELSE LET principal == PrincipalFromText(Head(scopeSegments))
         IN  IF ~principal.ok THEN principal
             ELSE MapCanisters(Tail(scopeSegments),
                               Append(canisters, [principal |-> principal.value]))

\* A faulty variant: the empty segments are not filtered out.
parseScopeString_NoFilter(scope) ==
    LET scopeSegments == Split(scope, SP)
        canisters == MapCanisters(scopeSegments, <<>>)
    IN  IF ~canisters.ok THEN canisters
        ELSE Ok([canisters |-> canisters.value])

parseScopeString(scope) ==
    LET scopeSegments == FilterBoolean(Split(scope, SP))
        canisters == MapCanisters(scopeSegments, <<>>)
    IN  IF ~canisters.ok THEN canisters
        ELSE Ok([canisters |-> canisters.value])

RECURSIVE Join(_, _)
\* segments.join(sep)
Join(segments, sep) ==
    IF segments = <<>> THEN <<>>
    ELSE IF Len(segments) = 1 THEN Head(segments)
         ELSE Head(segments) \o <<sep>> \o Join(Tail(segments), sep)

stringifyScope(scopeDescription) ==
    LET scopeSegments ==
            [i \in DOMAIN scopeDescription.canisters |->
                PrincipalToText(scopeDescription.canisters[i].principal)]
    IN  Join(scopeSegments, SP)

(***************************************************************************)
(* The arguments the caller draws.                                         *)
(***************************************************************************)
Optional(S) == {Undef} \cup {Str(s) : s \in S}

\* redirect URIs: normalized or not, with or without a query, or malformed
RedirectUris ==
    {UrlText(b, q) : b \in {"https://rp.example/cb", "HTTPS://RP.EXAMPLE/cb",
                            "https://rp.example", "rp.example/cb"},
                     q \in {<<>>, <<<<"foo", "1">>>>}}

AuthenticationRequests ==
    [type            : {"AuthenticationRequest"},
     sessionIdentity : [hex : {Str("deadbeef")}],
     redirectUri     : {Str(u) : u \in RedirectUris},
     state           : Optional({"xyz", ""}),
     scope           : {Str(""), Str("aaaa bbbb")}]

AuthenticationResponses ==
    [type        : {"AuthenticationResponse"},
     accessToken : {Str("ab12")},
     tokenType   : {Str("bearer")},
     expiresIn   : {Num(n) : n \in ExpiresInValues},
     state       : Optional({"xyz", ""}),
     scope       : Optional({"aaaa"})]

\* An object with the keys of f whose value is not undefined.
Present(f) == [k \in {key \in DOMAIN f : ~IsUndefined(f[key])} |-> f[k]]

OAuth2AccessTokenResponses ==
    {Present(f) : f \in [access_token : {Str("ab12")},
                         token_type   : Optional({"bearer", "", "mac"}),
                         expires_in   : {Num(3600)},
                         state        : Optional({"xyz"}),
                         scope        : Optional({"aaaa"})]}

OAuth2AuthorizationRequests ==
    {Present(f) : f \in [response_type : {Str("token")},
                         login_hint    : {Str("deadbeef")},
                         redirect_uri  : Optional(RedirectUris),
                         state         : Optional({"xyz"}),
                         scope         : Optional({"", "aaaa bbbb"})]}

\* Query strings: each wire key absent or present once.
WireKeys == <<"access_token", "token_type", "expires_in", "login_hint",
              "redirect_uri", "scope", "state">>

RECURSIVE PairsOf(_, _)
PairsOf(f, keys) ==
    IF keys = <<>> THEN <<>>
    ELSE IF IsUndefined(f[Head(keys)]) THEN PairsOf(f, Tail(keys))
         ELSE <<<<Head(keys), f[Head(keys)].v>>>> \o PairsOf(f, Tail(keys))

QueryStrings ==
    {PairsOf(f, WireKeys) :
        f \in [access_token : Optional({"ab12"}),
               token_type   : Optional({"bearer", "mac"}),
               expires_in   : Optional({"3600"}),
               login_hint   : Optional({"deadbeef"}),
               redirect_uri : Optional({"https://rp.example/cb",
                                        "HTTPS://RP.EXAMPLE/cb", "rp.example/cb"}),
               scope        : Optional({"aaaa bbbb"}),
               state        : Optional({"xyz"})]}

\* Bearer tokens: the JSON value each encodes.
PublicKeyValues == {Undef, Str("pk"), Str(""), Num(1), Null}
DelegationsValues ==
    {Undef, Null, Bool(FALSE), Num(0), Str(""),
     Bool(TRUE), Num(1), Str("x"), Arr(<<>>),
     Arr(<<Obj([signature |-> Str("sig")])>>), Obj(<<>>)}

JsonValues ==
    {Obj(Present(f)) : f \in [publicKey   : PublicKeyValues,
                              delegations : DelegationsValues,
                              extra       : Optional({"x"})]}
        \cup {Null, Num(1), Str("pk"), Arr(<<>>)}

BearerTokens == [json : JsonValues]

IdentityProviderUrls ==
    [base : {"https://idp.example/authorize"}, params : PreQueries]

RequestRedirectUris ==
    {UrlText(b, q) : b \in {"https://rp.example/cb", "https://rp.example",
                            "rp.example/cb"},
                     q \in PreQueries}

Chars == {SP, TAB, "a", "b"}
ScopeStrings == UNION {[1..n -> Chars] : n \in 0..MaxScopeLen}

ScopeDescriptions ==
    [canisters : UNION {[1..n -> [principal : Principals]] : n \in 0..MaxCanisters}]

(***************************************************************************)
(* The caller.  Idle, it makes one call; a value returned by toOauth or by  *)
(* stringifyScope may then be handed to the decoder of the other direction.*)
(***************************************************************************)
NoCall == [op |-> "none"]

Called(op, in, out) == [op |-> op, in |-> in, out |-> out]

Init ==
    /\ call = NoCall
    /\ prev = NoCall

CallAuthenticationResponse ==
    /\ call = NoCall
    /\ \E input \in OAuth2AccessTokenResponses :
        /\ call' = Called("AuthenticationResponse", input,
                          Ok(AuthenticationResponse(input)))
        /\ prev' = NoCall

CallAuthenticationRequest ==
    /\ call = NoCall
    /\ \E input \in OAuth2AuthorizationRequests :
        /\ call' = Called("AuthenticationRequest", input, AuthenticationRequest(input))
        /\ prev' = NoCall

CallFromQueryString ==
    /\ call = NoCall
    /\ \E searchParams \in QueryStrings :
        /\ call' = Called("fromQueryString", searchParams,
                          fromQueryString(searchParams))
        /\ prev' = NoCall

CallParseBearerToken ==
    /\ call = NoCall
    /\ \E icIdpBearerToken \in BearerTokens :
        /\ call' = Called("parseBearerToken", icIdpBearerToken,
                          parseBearerToken(icIdpBearerToken))
        /\ prev' = NoCall

CallToOauth ==
    /\ call = NoCall
    /\ \E idpRequest \in AuthenticationRequests :
        /\ call' = Called("toOauth", idpRequest, Ok(toOauth(idpRequest)))
        /\ prev' = NoCall

\* The OAuth2 request toOauth returned is decoded again.
DecodeEncodedRequest ==
    /\ call.op = "toOauth"
    /\ call' = Called("AuthenticationRequest", call.out.value,
                      AuthenticationRequest(call.out.value))
    /\ prev' = call

CallCreateAuthenticationRequestUrl ==
    /\ call = NoCall
    /\ \E identityProviderUrl \in IdentityProviderUrls,
       authenticationRequest \in AuthenticationRequests :
        /\ call' = Called("createAuthenticationRequestUrl",
                          [identityProviderUrl   |-> identityProviderUrl,
                           authenticationRequest |-> authenticationRequest],
                          createAuthenticationRequestUrl(identityProviderUrl,
                                                         authenticationRequest))
        /\ prev' = NoCall

CallCreateResponseRedirectUrl ==
    /\ call = NoCall
    /\ \E authResponse \in AuthenticationResponses,
       requestRedirectUri \in RequestRedirectUris :
        /\ call' = Called("createResponseRedirectUrl",
                          [authResponse       |-> authResponse,
                           requestRedirectUri |-> requestRedirectUri],
                          createResponseRedirectUrl(authResponse, requestRedirectUri))
        /\ prev' = NoCall

CallParseScopeString ==
    /\ call = NoCall
    /\ \E scope \in ScopeStrings :
        /\ call' = Called("parseScopeString", scope, parseScopeString(scope))
        /\ prev' = NoCall

CallStringifyScope ==
    /\ call = NoCall
    /\ \E scopeDescription \in ScopeDescriptions :
        /\ call' = Called("stringifyScope", scopeDescription,
                          Ok(stringifyScope(scopeDescription)))
        /\ prev' = NoCall

\* The scope string stringifyScope returned is parsed again.
ParseStringifiedScope ==
    /\ call.op = "stringifyScope"
    /\ call' = Called("parseScopeString", call.out.value,
                      parseScopeString(call.out.value))
    /\ prev' = call

Next ==
    \/ CallAuthenticationResponse
    \/ CallAuthenticationRequest
    \/ CallFromQueryString
    \/ CallParseBearerToken
    \/ CallToOauth
    \/ DecodeEncodedRequest
    \/ CallCreateAuthenticationRequestUrl
    \/ CallCreateResponseRedirectUrl
    \/ CallParseScopeString
    \/ CallStringifyScope
    \/ ParseStringifiedScope

Spec == Init /\ [][Next]_vars

(***************************************************************************)
(* What a call came to: "error", "undefined", or the type of the message   *)
(* it returned.                                                            *)
(***************************************************************************)
Kind(out) ==
    IF ~out.ok THEN "error"
    ELSE IF out.value = Undef THEN "undefined"
         ELSE out.value.type

\* The texts the principal codec accepts.
ValidPrincipalTexts == {row.text : row \in PrincipalTexts}

\* The number of pairs of ps with key k.
Occurrences(ps, k) == Cardinality({i \in DOMAIN ps : ps[i][1] = k})

(***************************************************************************)
(* C1.  The URL createAuthenticationRequestUrl returns never carries a     *)
(* query parameter whose value is the text "undefined": with the request's *)
(* state absent it has no state parameter, while response_type,            *)
(* login_hint, redirect_uri and scope are set to the values of             *)
(* toOauth(request).                                                       *)
(***************************************************************************)
C1_NoUndefinedParameter ==
    (call.op = "createAuthenticationRequestUrl" /\ call.out.ok) =>
        LET params == call.out.value.params
            request == call.in.authenticationRequest
            oauthRequest == toOauth(request)
        IN  /\ \A i \in DOMAIN params : params[i][2] # "undefined"
            /\ IsUndefined(request.state) => ~ParamHas(params, "state")
            /\ \A k \in {"response_type", "login_hint", "redirect_uri", "scope"} :
                   /\ Occurrences(params, k) = 1
                   /\ ParamGet(params, k) = oauthRequest[k]

(***************************************************************************)
(* C2.  createResponseRedirectUrl, on a redirect URI that already carries  *)
(* query parameters: (1) the parameters whose key is none of access_token, *)
(* expires_in, token_type, state, scope are unchanged, values and order;   *)
(* (2) every field of toOAuth2(response) with a value is set to it, once,  *)
(* whatever the URI carried under that key; (3) every field without a      *)
(* value does not occur, even if the URI carried it.                       *)
(***************************************************************************)
C2_ResponseRedirectFrame ==
    (/\ call.op = "createResponseRedirectUrl"
     /\ ParseUrl(call.in.requestRedirectUri).ok) =>
        /\ call.out.ok
        /\ LET before == ParseUrl(call.in.requestRedirectUri).value.params
               after == call.out.value.params
               oauth2Response == toOAuth2(call.in.authResponse)
               written == {toOAuth2Keys[i] : i \in DOMAIN toOAuth2Keys}
           IN  /\ SelectPairs(after, ParamKeys(after) \ written)
                      = SelectPairs(before, ParamKeys(before) \ written)
               /\ \A k \in written :
                      IF IsUndefined(oauth2Response[k])
                      THEN Occurrences(after, k) = 0
                      ELSE /\ Occurrences(after, k) = 1
                           /\ ParamGet(after, k) = Str(ToUSVString(oauth2Response[k]))

\* A redirect URI carrying foo and state, answered without a state.
C2_Witness ==
    /\ call.op = "createResponseRedirectUrl"
    /\ call.out.ok
    /\ IsUndefined(call.in.authResponse.state)
    /\ ~IsUndefined(call.in.authResponse.scope)
    /\ call.in.requestRedirectUri = "https://rp.example/cb?state=old&foo=1"
    /\ ParamGet(call.out.value.params, "foo") = Str("1")
    /\ ParamGet(call.out.value.params, "expires_in") = Str("3600")
    /\ ~ParamHas(call.out.value.params, "state")

(***************************************************************************)
(* C3.  What parseBearerToken returns has exactly the fields publicKey and *)
(* delegations, with the values of the decoded JSON, and no other field of *)
(* the decoded JSON.                                                       *)
(***************************************************************************)
C3_ReturnsNarrowedObject ==
    (call.op = "parseBearerToken" /\ call.out.ok) =>
        /\ call.out.value.t = "object"
        /\ DOMAIN call.out.value.v = {"publicKey", "delegations"}
        /\ call.out.value.v.publicKey = Property(call.in.json, "publicKey")
        /\ call.out.value.v.delegations = Property(call.in.json, "delegations")

(***************************************************************************)
(* C4, as stated.  On a token whose decoded JSON is an object,             *)
(* parseBearerToken fails with "publicKey must be a string" when publicKey *)
(* is no string, fails with "delegations required" when publicKey is a     *)
(* string and delegations is null or undefined, and succeeds in every      *)
(* other case, the falsy delegations 0, false and '' included.             *)
(***************************************************************************)
C4_FailsOnlyOnNullDelegations ==
    (call.op = "parseBearerToken" /\ call.in.json.t = "object") =>
        LET publicKey == Get(call.in.json.v, "publicKey")
            delegations == Get(call.in.json.v, "delegations")
        IN  IF publicKey.t # "string"
            THEN /\ ~call.out.ok
                 /\ call.out.error.message = "publicKey must be a string"
            ELSE IF delegations.t \in {"null", "undefined"}
                 THEN /\ ~call.out.ok
                      /\ call.out.error.message = "delegations required"
                 ELSE call.out.ok

(***************************************************************************)
(* C4, amended.  On a token whose decoded JSON is an object,               *)
(* parseBearerToken fails with the error "publicKey must be a string" when *)
(* publicKey is no string, fails with the AssertionError of assert.ok when *)
(* publicKey is a string and delegations is falsy (undefined, null, false, *)
(* 0 or ''), and succeeds in every other case.                             *)
(***************************************************************************)
C4_FailsOnFalsyDelegations ==
    (call.op = "parseBearerToken" /\ call.in.json.t = "object") =>
        LET publicKey == Get(call.in.json.v, "publicKey")
            delegations == Get(call.in.json.v, "delegations")
        IN  IF publicKey.t # "string"
            THEN /\ ~call.out.ok
                 /\ call.out.error.name = "Error"
                 /\ call.out.error.message = "publicKey must be a string"
            ELSE IF delegations \in {Undef, Null, Bool(FALSE), Num(0), Str("")}
                 THEN /\ ~call.out.ok
                      /\ call.out.error.name = "AssertionError"
                      /\ call.out.error.message # "delegations required"
                 ELSE call.out.ok

\* A token with a string publicKey and delegations 0 is refused.
C4_Witness ==
    /\ call.op = "parseBearerToken"
    /\ call.in.json.t = "object"
    /\ Get(call.in.json.v, "publicKey") = Str("pk")
    /\ Get(call.in.json.v, "delegations") = Num(0)
    /\ ~call.out.ok
    /\ call.out.error.name = "AssertionError"

(***************************************************************************)
(* C5, as stated.  fromQueryString returns an AuthenticationResponse when  *)
(* the OAuth2 message parsed from the query has access_token (login_hint   *)
(* and redirect_uri, if there, are ignored), an AuthenticationRequest when *)
(* it has none but is an authorization request, and undefined when the     *)
(* OAuth2 parser recognises nothing; there is no other outcome.            *)
(***************************************************************************)
C5_ThreeOutcomes ==
    call.op = "fromQueryString" =>
        LET oauth2Message == OAuth2FromQueryString(call.in)
        IN  /\ Kind(call.out) \in
                   {"AuthenticationResponse", "AuthenticationRequest", "undefined"}
            /\ Kind(call.out) = "AuthenticationResponse"
                   <=> (oauth2Message # Undef /\ HasKey(oauth2Message.v, "access_token"))
            /\ Kind(call.out) = "AuthenticationRequest"
                   <=> (oauth2Message # Undef /\ ~HasKey(oauth2Message.v, "access_token"))
            /\ Kind(call.out) = "undefined" <=> oauth2Message = Undef
            /\ call.in = <<>> => Kind(call.out) = "undefined"

(***************************************************************************)
(* C5, amended.  As stated, but an authorization request is returned as an *)
(* AuthenticationRequest only when its redirect_uri is an absolute URL;    *)
(* when it is not, the call fails with the URL parser's error.  The four   *)
(* outcomes are exhaustive and mutually exclusive.                         *)
(***************************************************************************)
C5_FourOutcomes ==
    call.op = "fromQueryString" =>
        LET oauth2Message == OAuth2FromQueryString(call.in)
            isResponse == oauth2Message # Undef /\ HasKey(oauth2Message.v, "access_token")
            isRequest == oauth2Message # Undef /\ ~HasKey(oauth2Message.v, "access_token")
            absolute == \E b \in UrlBases :
                            /\ b.absolute
                            /\ ParamGet(call.in, "redirect_uri") = Str(b.text)
        IN  /\ Kind(call.out) = "AuthenticationResponse" <=> isResponse
            /\ Kind(call.out) = "AuthenticationRequest" <=> (isRequest /\ absolute)
            /\ Kind(call.out) = "error" <=> (isRequest /\ ~absolute)
            /\ Kind(call.out) = "undefined" <=> oauth2Message = Undef
            /\ Kind(call.out) = "error" => call.out.error.name = "TypeError"
            /\ call.in = <<>> => Kind(call.out) = "undefined"

\* A query with access_token, login_hint and redirect_uri is a response.
C5_Witness ==
    /\ call.op = "fromQueryString"
    /\ ParamHas(call.in, "access_token")
    /\ ParamHas(call.in, "login_hint")
    /\ ParamHas(call.in, "redirect_uri")
    /\ Kind(call.out) = "AuthenticationResponse"

(***************************************************************************)
(* C6.  Every AuthenticationResponse decoded from an                       *)
(* OAuth2AccessTokenResponse, by the constructor or by fromQueryString     *)
(* through it, has tokenType 'bearer', whatever the token_type given.      *)
(***************************************************************************)
C6_TokenTypeIsBearer ==
    (/\ call.op \in {"AuthenticationResponse", "fromQueryString"}
     /\ Kind(call.out) = "AuthenticationResponse") =>
        call.out.value.tokenType = Str("bearer")

(***************************************************************************)
(* C7.  A valid AuthenticationRequest r whose redirectUri is a normalized  *)
(* absolute URL comes back from AuthenticationRequest(toOauth(r)) equal    *)
(* field by field (type, sessionIdentity.hex, redirectUri, scope, state),  *)
(* also with state absent and with scope ''; and an authorization request  *)
(* without scope decodes to scope ''.                                      *)
(***************************************************************************)
NormalizedUrlTexts ==
    {UrlText(b.text, q) : b \in {row \in UrlBases : row.absolute /\ row.text = row.href},
                          q \in PreQueries}

C7_RequestRoundTrip ==
    /\ (/\ call.op = "AuthenticationRequest"
        /\ prev.op = "toOauth"
        /\ prev.in.redirectUri.v \in NormalizedUrlTexts) =>
            /\ call.out.ok
            /\ call.out.value.type = prev.in.type
            /\ call.out.value.sessionIdentity.hex = prev.in.sessionIdentity.hex
            /\ call.out.value.redirectUri = prev.in.redirectUri
            /\ call.out.value.scope = prev.in.scope
            /\ call.out.value.state = prev.in.state
    /\ (/\ call.op = "AuthenticationRequest"
        /\ ~HasKey(call.in, "scope")
        /\ call.out.ok) =>
            call.out.value.scope = Str("")

\* A request without state and with scope '' went through both directions.
C7_Witness ==
    /\ call.op = "AuthenticationRequest"
    /\ prev.op = "toOauth"
    /\ prev.in.redirectUri = Str("https://rp.example/cb?foo=1")
    /\ IsUndefined(prev.in.state)
    /\ prev.in.scope = Str("")
    /\ call.out.ok
    /\ call.out.value = prev.in

(***************************************************************************)
(* C8.  For every list L of principals, empty or with repetitions,         *)
(* parseScopeString(stringifyScope({canisters: L})).canisters is L: same   *)
(* length, same order, nothing lost or duplicated.                         *)
(***************************************************************************)
C8_ScopeRoundTrip ==
    (call.op = "parseScopeString" /\ prev.op = "stringifyScope") =>
        /\ call.in = prev.out.value
        /\ call.out.ok
        /\ Len(call.out.value.canisters) = Len(prev.in.canisters)
        /\ \A i \in DOMAIN prev.in.canisters :
               call.out.value.canisters[i].principal = prev.in.canisters[i].principal

\* A list of three with one principal twice came back.
C8_Witness ==
    /\ call.op = "parseScopeString"
    /\ prev.op = "stringifyScope"
    /\ Len(prev.in.canisters) = 3
    /\ prev.in.canisters[1].principal = "P2"
    /\ prev.in.canisters[2].principal = "P1"
    /\ prev.in.canisters[3].principal = "P2"
    /\ call.out.ok
    /\ call.out.value.canisters = prev.in.canisters

(***************************************************************************)
(* C9.  parseScopeString drops no invalid segment.  If a non-empty         *)
(* white-space-separated segment of the scope string is not a valid        *)
(* principal text, the call fails with the error of the principal codec    *)
(* and returns nothing; when it succeeds every such segment decodes and    *)
(* the result has one entry per segment, in order, however many there are; *)
(* and it succeeds whenever the space-separated segments all decode.       *)
(***************************************************************************)
RECURSIVE SegmentsFrom(_, _, _, _)
SegmentsFrom(s, separators, segment, done) ==
    LET closed == IF segment = <<>> THEN done ELSE Append(done, segment)
    IN  IF s = <<>> THEN closed
        ELSE IF Head(s) \in separators
             THEN SegmentsFrom(Tail(s), separators, <<>>, closed)
             ELSE SegmentsFrom(Tail(s), separators, Append(segment, Head(s)), done)

\* The non-empty maximal runs of s without a character of separators.
Segments(s, separators) == SegmentsFrom(s, separators, <<>>, <<>>)

C9_NoSegmentDropped ==
    call.op = "parseScopeString" =>
        LET segments == Segments(call.in, {SP, TAB})
            spaced == Segments(call.in, {SP})
            invalid(ss) == \E i \in DOMAIN ss : ss[i] \notin ValidPrincipalTexts
        IN  /\ invalid(segments) =>
                   /\ ~call.out.ok
                   /\ DOMAIN call.out = {"ok", "error"}
                   /\ call.out.error.text \notin ValidPrincipalTexts
                   /\ call.out = PrincipalFromText(call.out.error.text)
            /\ call.out.ok =>
                   /\ ~invalid(segments)
                   /\ Len(call.out.value.canisters) = Len(segments)
                   /\ \A i \in DOMAIN segments :
                          PrincipalToText(call.out.value.canisters[i].principal)
                              = segments[i]
            /\ ~invalid(spaced) => call.out.ok

\* A valid segment followed by an invalid one: the call fails.
C9_Witness ==
    /\ call.op = "parseScopeString"
    /\ call.in = <<"a", SP, SP, "b">>
    /\ ~call.out.ok
    /\ call.out.error.text = <<"b">>

(***************************************************************************)
(* C10.  Decoding an authorization request, by the constructor or by       *)
(* fromQueryString through it, fails with the URL parser's error when      *)
(* redirect_uri is not an absolute URL, and returns neither a request nor  *)
(* undefined; when it is, the redirectUri of the request is the normalized *)
(* form of the URL, not the text given.                                    *)
(***************************************************************************)
\* The normalized form of text s, or "" when s is no absolute URL.
NormalizedForm(s) ==
    LET forms == {UrlText(r.base.href, r.params) :
                     r \in {x \in [base : UrlBases, params : PreQueries] :
                                x.base.absolute /\ UrlText(x.base.text, x.params) = s}}
    IN  IF forms = {} THEN "" ELSE CHOOSE f \in forms : TRUE

C10_RedirectUriParsedOrFails ==
    LET decodesRequest ==
            \/ call.op = "AuthenticationRequest"
            \/ /\ call.op = "fromQueryString"
               /\ ~ParamHas(call.in, "access_token")
               /\ ParamHas(call.in, "login_hint")
               /\ ParamHas(call.in, "redirect_uri")
        given == IF call.op = "fromQueryString"
                 THEN ParamGet(call.in, "redirect_uri")
                 ELSE Get(call.in, "redirect_uri")
        normalized == IF IsString(given) THEN NormalizedForm(given.v) ELSE ""
    IN  decodesRequest =>
            IF normalized = ""
            THEN /\ Kind(call.out) = "error"
                 /\ call.out.error.name = "TypeError"
            ELSE /\ Kind(call.out) = "AuthenticationRequest"
                 /\ call.out.value.redirectUri = Str(normalized)

\* A redirect_uri in upper case is stored in lower case.
C10_Witness ==
    /\ call.op = "fromQueryString"
    /\ ParamGet(call.in, "redirect_uri") = Str("HTTPS://RP.EXAMPLE/cb")
    /\ Kind(call.out) = "AuthenticationRequest"
    /\ call.out.value.redirectUri = Str("https://rp.example/cb")
    /\ call.out.value.redirectUri # ParamGet(call.in, "redirect_uri")

=============================================================================
